---- MODULE Spec2Model ----
(***************************************************************************)
(* notebooks/demo/batch_betweenness.ipynb: the single-GPU versus multi-GPU *)
(* betweenness-centrality workflow, modelled as a "Run All" of the         *)
(* notebook.  One action per code cell; a cell whose statement raises      *)
(* halts the run (pc = "halted"), the kernel keeping the state reached.    *)
(* The filesystem under ../data and the download history outlive a run;    *)
(* Restart is a fresh kernel running the notebook again.                   *)
(* The import cells and the cells that only print a timing hold no state   *)
(* and are not steps of the model.                                         *)
(***************************************************************************)
EXTENDS Integers, Sequences, FiniteSets, TLC

\* ---------------------------------------------------------------- bounds
\* Runs of the notebook ("Run All" on a fresh kernel) in one behaviour.
MaxRuns == 2
\* Edges of the dataset: the datasets are the prefixes of SampleEdges.
MaxEdges == 4
\* Largest rounding difference (in units of 1e-9) between a multi-GPU score
\* and the single-GPU score of the same vertex.
MaxRoundErr == 1

\* ------------------------------------------------------- program constants
data_dir == "../data/"
fn == "soc-LiveJournal1.txt"
comp == ".gz"
\* k and seed as written at the two call sites.
SG_K == 1024
SG_SEED == 123
MG_K == 1024
MG_SEED == 123
\* cupy.allclose defaults, rtol = 1e-5 and atol = 1e-8; a score is an integer
\* number of 1e-9, so atol is 10 and rtol is 1 / RTOL_DEN.
ATOL == 10
RTOL_DEN == 100000
\* One shortest path's contribution to a score, in units of 1e-9 (scores of
\* the dataset are of the order 1e-6); divisible by every path count that
\* occurs, so that the fractions of the definition stay integers.
PathUnit == 6000

\* ------------------------------------------------------------ the dataset
Edge(s, d) == [src |-> s, dst |-> d]

\* A fixed edge list in the file's format (one "src<TAB>dst" pair per line):
\* the edge 0->1, a path, a diamond with two shortest paths from 0 to 3, a
\* cycle back to 0, a repeated line, then a chain of new vertices.
SampleEdge(i) ==
    CASE i = 1 -> Edge(0, 1)
      [] i = 2 -> Edge(1, 3)
      [] i = 3 -> Edge(0, 2)
      [] i = 4 -> Edge(2, 3)
      [] i = 5 -> Edge(3, 0)
      [] i = 6 -> Edge(0, 1)
      [] OTHER -> Edge(i - 4, i - 3)

Datasets == { [i \in 1..n |-> SampleEdge(i)] : n \in 0..MaxEdges }

\* ------------------------------------------------ helpers on sets and rows
Min(S) == CHOOSE x \in S : \A y \in S : x <= y

RECURSIVE SortedSeq(_)
SortedSeq(S) == IF S = {} THEN <<>> ELSE <<Min(S)>> \o SortedSeq(S \ {Min(S)})

RECURSIVE SumOver(_, _)
SumOver(S, f) ==
    IF S = {} THEN 0
    ELSE LET x == CHOOSE y \in S : TRUE IN f[x] + SumOver(S \ {x}, f)

Abs(x) == IF x < 0 THEN -x ELSE x

\* s rotated left by r places.
Rotate(s, r) ==
    [i \in 1..Len(s) |-> s[((i - 1 + r) % Len(s)) + 1]]

Row(i, v, x) == [index |-> i, vertex |-> v, betweenness_centrality |-> x]

\* ------------------------------------------- the library the notebook calls
\* cudf.read_csv(path, delimiter='\t', names=['src','dst']): the file's lines
\* as rows, in the file's order.
read_csv(content) == content

\* The vertices of an edge list: the identifiers that occur in it.
VerticesOf(edges) ==
    {edges[i].src : i \in 1..Len(edges)} \cup {edges[i].dst : i \in 1..Len(edges)}

\* cugraph.DiGraph(): an empty graph, not batch enabled.
DiGraph == [edgelist |-> <<>>, built |-> FALSE, batch_enabled |-> FALSE]

\* G.from_cudf_edgelist(df, source, destination): the rows of df taken as given
\* (no deduplication, no validation), read through the two named columns.
from_cudf_edgelist(g, df, source, destination) ==
    [g EXCEPT !.edgelist = [i \in 1..Len(df) |-> Edge(df[i][source], df[i][destination])],
              !.built = TRUE]

\* G.enable_batch(): the graph's representation is replicated to the devices
\* of the cluster and the graph is marked batch enabled; its edges stay.
enable_batch(g) == [g EXCEPT !.batch_enabled = TRUE]

EdgePairs(g) == {<<g.edgelist[i].src, g.edgelist[i].dst>> : i \in 1..Len(g.edgelist)}

\* The number of walks of length d from s to t; for d the distance from s to
\* t these are the shortest paths.
RECURSIVE Walks(_, _, _, _)
Walks(E, s, t, d) ==
    IF d = 0 THEN (IF s = t THEN 1 ELSE 0)
    ELSE LET In == {e \in E : e[2] = t}
         IN  SumOver(In, [e \in In |-> Walks(E, s, e[1], d - 1)])

\* The distance from s to t, or Cardinality(V) when t is not reachable.
Dist(E, V, s, t) ==
    LET n == Cardinality(V)
        D == {d \in 0..(n - 1) : Walks(E, s, t, d) > 0}
    IN  IF D = {} THEN n ELSE Min(D)

Sigma(E, V, s, t) == Walks(E, s, t, Dist(E, V, s, t))

\* The k source vertices drawn with the seed: all of them when the graph has
\* no more than k, else a choice fixed by the vertex set, k and the seed.
SampleSources(V, k, seed) ==
    IF k >= Cardinality(V) THEN V
    ELSE CHOOSE S \in SUBSET V : Cardinality(S) = k /\ seed = seed

\* The betweenness-centrality score of v over the sampled sources: for each
\* source s and target t, the fraction of the shortest paths from s to t that
\* pass through v (in PathUnit).
Score(E, V, sources, v) ==
    LET n == Cardinality(V)
        Pairs == {p \in (sources \ {v}) \X (V \ {v}) : p[1] # p[2]}
        Through(p) ==
            IF /\ Dist(E, V, p[1], p[2]) < n
               /\ Dist(E, V, p[1], v) + Dist(E, V, v, p[2]) = Dist(E, V, p[1], p[2])
            THEN (PathUnit * Sigma(E, V, p[1], v) * Sigma(E, V, v, p[2]))
                     \div Sigma(E, V, p[1], p[2])
            ELSE 0
    IN  SumOver(Pairs, [p \in Pairs |-> Through(p)])

\* The score of every vertex of g, for the k sources drawn with the seed.
Scores(g, k, seed) ==
    LET V == VerticesOf(g.edgelist)
        E == EdgePairs(g)
        S == SampleSources(V, k, seed)
    IN  [v \in V |-> Score(E, V, S, v)]

\* The rows of a result whose i-th row is vertex order[i], vertex bad's score
\* being off by err.
ResultRows(scores, order, bad, err) ==
    [i \in 1..Len(order) |->
        Row(i - 1, order[i], scores[order[i]] + (IF order[i] = bad THEN err ELSE 0))]

\* The differences a multi-GPU score may show: rounding only for a library
\* that keeps its contract, a whole path more or less for one that does not.
ScoreErrors(conforms) ==
    (-MaxRoundErr..MaxRoundErr) \cup (IF conforms THEN {} ELSE {-PathUnit, PathUnit})

\* cugraph.betweenness_centrality(G, k, seed): one row per vertex of G, in an
\* order the library chooses.  On a batch-enabled graph the work is spread
\* over the devices of the cluster and the sums may round differently.
betweenness_centrality(g, k, seed, conforms) ==
    LET V == VerticesOf(g.edgelist)
        sorted == SortedSeq(V)
        orders == {Rotate(sorted, r) : r \in 0..(IF V = {} THEN 0 ELSE Len(sorted) - 1)}
        scores == Scores(g, k, seed)
    IN  IF ~g.batch_enabled
        THEN {ResultRows(scores, o, -1, 0) : o \in orders}
        ELSE {ResultRows(scores, o, -1, 0) : o \in orders}
             \cup UNION {{ResultRows(scores, o, bad, err) : o \in orders} :
                            bad \in V, err \in ScoreErrors(conforms)}

\* df.sort_values("vertex"): the rows by ascending vertex, each keeping its
\* index label.
RECURSIVE sort_values_vertex(_)
sort_values_vertex(df) ==
    IF df = <<>> THEN <<>>
    ELSE LET m == Min({df[i].vertex : i \in 1..Len(df)})
             j == Min({i \in 1..Len(df) : df[i].vertex = m})
             rest == [i \in 1..(Len(df) - 1) |-> IF i < j THEN df[i] ELSE df[i + 1]]
         IN  <<df[j]>> \o sort_values_vertex(rest)

\* df.reset_index(drop=True): the rows relabelled 0, 1, ... in their order.
reset_index(df) == [i \in 1..Len(df) |-> [df[i] EXCEPT !.index = i - 1]]

\* cupy.allclose(a, b) on two columns: position by position,
\* |a - b| <= atol + rtol * |b|; columns of different length do not broadcast.
allclose(a, b) ==
    \A i \in 1..Len(a) : RTOL_DEN * Abs(a[i] - b[i]) <= RTOL_DEN * ATOL + Abs(b[i])

Column(df, name) == [i \in 1..Len(df) |-> df[i][name]]

\* ------------------------------------------------------------- the state
VARIABLES
    \* outside the kernel: what a run finds and leaves behind
    dataset,          \* the edge list the remote file (and a local copy) holds
    lib_conforms,     \* whether the library is held to its single/multi-GPU contract
    data_dir_exists,  \* os.path.exists('../data/')
    fn_exists,        \* os.path.isfile(data_dir + fn)
    gz_state,         \* data_dir + fn + comp: "absent", "valid" or "corrupt"
    run,              \* the number of the current run
    netRequests,      \* calls of urlretrieve so far, over all runs
    downloads,        \* calls of urlretrieve that fetched the whole file
    gunzipRuns,       \* times the gunzip command was run
    \* the kernel of the current run
    pc,               \* the cell to run next, "done" or "halted"
    failedAt,         \* the cell whose statement raised, "" if none
    stdout,           \* the messages the acquisition cells printed
    acqFailures,      \* the acquisition commands that failed in this run
    input_data_path,
    e_list,
    G,
    sg_df,
    batch_df,
    sorted_sg_df,
    sorted_batch_df,
    verdict,          \* the value of the allclose cell: "none", "True", "False"
    displayed,        \* the frames the print cells showed
    cluster,          \* "none", "live" or "closed"
    client,           \* "none", "live" or "closed"
    comms,            \* "none", "live" or "destroyed"
    calls             \* the computation steps made, each with the state it ran in

fsVars == <<data_dir_exists, fn_exists, gz_state>>
histVars == <<run, netRequests, downloads, gunzipRuns>>
envVars == <<dataset, lib_conforms>>
acqVars == <<stdout, acqFailures, input_data_path>>
dataVars == <<e_list, G, sg_df, batch_df, sorted_sg_df, sorted_batch_df, verdict, displayed>>
ctxVars == <<cluster, client, comms>>
vars == <<envVars, fsVars, histVars, pc, failedAt, acqVars, dataVars, ctxVars, calls>>

\* ------------------------------------------------------- the cells' order
Cells == <<"mkdir", "acquire", "read_csv", "build", "sg_bc", "cluster_up",
           "enable_batch", "mg_bc", "sort", "verify", "print_sg", "print_batch",
           "teardown">>

\* A notebook with the teardown cell moved up, before batch enabling.
NextCell_teardownBeforeBatch(c) ==
    CASE c = "cluster_up" -> "teardown"
      [] c = "teardown" -> "enable_batch"
      [] c = "print_batch" -> "done"
      [] OTHER -> LET i == CHOOSE j \in 1..Len(Cells) : Cells[j] = c IN Cells[i + 1]

\* A notebook with the teardown cell moved up, right after the multi-GPU call.
NextCell_teardownAfterMG(c) ==
    CASE c = "mg_bc" -> "teardown"
      [] c = "teardown" -> "sort"
      [] c = "print_batch" -> "done"
      [] OTHER -> LET i == CHOOSE j \in 1..Len(Cells) : Cells[j] = c IN Cells[i + 1]

\* "Run All": the cell after c in the notebook.
NextCell(c) ==
    LET i == CHOOSE j \in 1..Len(Cells) : Cells[j] = c
    IN  IF i = Len(Cells) THEN "done" ELSE Cells[i + 1]

\* An uncaught exception in cell c: the run stops there.
Raise(c) == pc' = "halted" /\ failedAt' = c

Goes(c) == pc' = NextCell(c) /\ failedAt' = failedAt

CtxNow == [cluster |-> cluster, client |-> client, comms |-> comms]

\* ---------------------------------------------------------------- Init
KernelInit ==
    /\ pc = "mkdir"
    /\ failedAt = ""
    /\ stdout = {}
    /\ acqFailures = {}
    /\ input_data_path = ""
    /\ e_list = <<>>
    /\ G = [edgelist |-> <<>>, built |-> FALSE, batch_enabled |-> FALSE]
    /\ sg_df = <<>>
    /\ batch_df = <<>>
    /\ sorted_sg_df = <<>>
    /\ sorted_batch_df = <<>>
    /\ verdict = "none"
    /\ displayed = {}
    /\ cluster = "none"
    /\ client = "none"
    /\ comms = "none"
    /\ calls = <<>>

\* Any state of ../data a first run can find: files only in a directory.
FsInit ==
    /\ data_dir_exists \in BOOLEAN
    /\ fn_exists \in BOOLEAN
    /\ gz_state \in {"absent", "valid", "corrupt"}
    /\ (fn_exists \/ gz_state # "absent") => data_dir_exists
    /\ run = 1
    /\ netRequests = 0
    /\ downloads = 0
    /\ gunzipRuns = 0

Init ==
    /\ dataset \in Datasets
    /\ lib_conforms = TRUE
    /\ FsInit
    /\ KernelInit

\* The same, with a library that is not held to its contract.
InitAnyLib ==
    /\ dataset \in Datasets
    /\ lib_conforms = FALSE
    /\ FsInit
    /\ KernelInit

\* ------------------------------------------------------ dataset acquisition
\* if not os.path.exists(data_dir): os.system('mkdir ../data').  os.system
\* returns the command's exit status and raises nothing.
CellMkdir ==
    /\ pc = "mkdir"
    /\ \/ /\ data_dir_exists
          /\ UNCHANGED <<data_dir_exists, stdout, acqFailures>>
       \/ /\ ~data_dir_exists
          /\ stdout' = stdout \cup {"creating data directory"}
          /\ \E ok \in BOOLEAN :
                /\ data_dir_exists' = ok
                /\ acqFailures' = acqFailures \cup (IF ok THEN {} ELSE {"mkdir"})
    /\ Goes("mkdir")
    /\ UNCHANGED <<envVars, fn_exists, gz_state, histVars, input_data_path,
                   dataVars, ctxVars, calls>>

\* A cell that acquires the file whether or not it is there.
NeedsAcquire_always == TRUE

\* if not os.path.isfile(data_dir + fn)
NeedsAcquire == ~fn_exists

\* A cell that downloads whether or not the compressed file is there.
NeedsDownload_always == TRUE

\* if not os.path.isfile(data_dir + fn + comp)
NeedsDownload == gz_state = "absent"

\* The download cell.  urlretrieve raises when the request or the write fails
\* (it cannot write without the directory), and may leave a truncated file;
\* gunzip replaces a valid compressed file by the decompressed one or fails
\* and leaves the files as they were, and os.system raises in neither case.
CellAcquire ==
    /\ pc = "acquire"
    /\ \/ /\ ~NeedsAcquire
          /\ stdout' = stdout \cup {"already exists"}
          /\ input_data_path' = data_dir \o fn
          /\ Goes("acquire")
          /\ UNCHANGED <<fn_exists, gz_state, netRequests, downloads, gunzipRuns,
                         acqFailures>>
       \/ /\ NeedsAcquire
          /\ NeedsDownload
          /\ stdout' = stdout \cup {"Downloading"}
          /\ netRequests' = netRequests + 1
          /\ \E left \in {gz_state} \cup (IF data_dir_exists THEN {"corrupt"} ELSE {}) :
                gz_state' = left
          /\ acqFailures' = acqFailures \cup {"urlretrieve"}
          /\ Raise("acquire")
          /\ UNCHANGED <<fn_exists, downloads, gunzipRuns, input_data_path>>
       \/ /\ NeedsAcquire
          /\ NeedsDownload => data_dir_exists
          /\ LET dl == NeedsDownload
                 gz == IF dl THEN "valid" ELSE gz_state
             IN  /\ netRequests' = netRequests + (IF dl THEN 1 ELSE 0)
                 /\ downloads' = downloads + (IF dl THEN 1 ELSE 0)
                 /\ gunzipRuns' = gunzipRuns + 1
                 /\ \E ok \in (IF gz = "valid" /\ ~fn_exists THEN BOOLEAN ELSE {FALSE}) :
                       /\ gz_state' = (IF ok THEN "absent" ELSE gz)
                       /\ fn_exists' = (fn_exists \/ ok)
                       /\ acqFailures' = acqFailures \cup (IF ok THEN {} ELSE {"gunzip"})
                 /\ stdout' = stdout \cup (IF dl THEN {"Downloading"} ELSE {})
                                     \cup {"Decompressing", "decompressed!"}
          /\ input_data_path' = data_dir \o fn
          /\ Goes("acquire")
    /\ UNCHANGED <<envVars, data_dir_exists, run, dataVars, ctxVars, calls>>

\* ------------------------------------------------------------- single GPU
\* e_list = cudf.read_csv(input_data_path, ...): raises when the file is not
\* there (or cannot be parsed).
CellReadCsv ==
    /\ pc = "read_csv"
    /\ \/ /\ input_data_path = data_dir \o fn
          /\ fn_exists
          /\ e_list' = read_csv(dataset)
          /\ Goes("read_csv")
       \/ /\ Raise("read_csv")
          /\ UNCHANGED e_list
    /\ UNCHANGED <<envVars, fsVars, histVars, acqVars, G, sg_df, batch_df, sorted_sg_df,
                   sorted_batch_df, verdict, displayed, ctxVars, calls>>

\* A call that names the source column twice.
BuildGraph_srcTwice(df) == from_cudf_edgelist(DiGraph, df, "src", "src")

\* G = cugraph.DiGraph(); G.from_cudf_edgelist(e_list, source='src', destination='dst')
BuildGraph(df) == from_cudf_edgelist(DiGraph, df, "src", "dst")

CellBuild ==
    /\ pc = "build"
    /\ \/ /\ G' = BuildGraph(e_list)
          /\ Goes("build")
       \/ /\ Raise("build")
          /\ UNCHANGED G
    /\ UNCHANGED <<envVars, fsVars, histVars, acqVars, e_list, sg_df, batch_df,
                   sorted_sg_df, sorted_batch_df, verdict, displayed, ctxVars, calls>>

\* The record of a computation step: what it was called with, the edges of
\* the graph and the state of the cluster context it ran in.
Call(op, args) ==
    [op |-> op, args |-> args, edgelist |-> G.edgelist, ctx |-> CtxNow]

\* The arguments of the single-GPU call.
SGArgs == [k |-> SG_K, seed |-> SG_SEED]

\* sg_df = cugraph.betweenness_centrality(G, k=1024, seed=123)
CellSG ==
    /\ pc = "sg_bc"
    /\ calls' = Append(calls, Call("betweenness_centrality", SGArgs))
    /\ \/ /\ \E df \in betweenness_centrality(G, SGArgs.k, SGArgs.seed, lib_conforms) :
                sg_df' = df
          /\ Goes("sg_bc")
       \/ /\ Raise("sg_bc")
          /\ UNCHANGED sg_df
    /\ UNCHANGED <<envVars, fsVars, histVars, acqVars, e_list, G, batch_df,
                   sorted_sg_df, sorted_batch_df, verdict, displayed, ctxVars>>

\* -------------------------------------------------------------- multi GPU
\* cluster = dask_cuda.LocalCUDACluster(); client = dask.distributed.Client(cluster);
\* Comms.initialize().  A statement that raises leaves the handles made before it.
CellClusterUp ==
    /\ pc = "cluster_up"
    /\ \/ /\ Raise("cluster_up")
          /\ UNCHANGED ctxVars
       \/ /\ cluster' = "live"
          /\ Raise("cluster_up")
          /\ UNCHANGED <<client, comms>>
       \/ /\ cluster' = "live"
          /\ client' = "live"
          /\ Raise("cluster_up")
          /\ UNCHANGED comms
       \/ /\ cluster' = "live"
          /\ client' = "live"
          /\ comms' = "live"
          /\ Goes("cluster_up")
    /\ UNCHANGED <<envVars, fsVars, histVars, acqVars, dataVars, calls>>

\* A cell that makes a new graph object before enabling batch processing.
EnableBatchOn_newGraph(g) == enable_batch(DiGraph)

\* G.enable_batch()
EnableBatchOn(g) == enable_batch(g)

CellEnableBatch ==
    /\ pc = "enable_batch"
    /\ calls' = Append(calls, Call("enable_batch", <<>>))
    /\ \/ /\ G' = EnableBatchOn(G)
          /\ Goes("enable_batch")
       \/ /\ Raise("enable_batch")
          /\ UNCHANGED G
    /\ UNCHANGED <<envVars, fsVars, histVars, acqVars, e_list, sg_df, batch_df,
                   sorted_sg_df, sorted_batch_df, verdict, displayed, ctxVars>>

\* A second call written with another seed.
MGArgs_otherSeed == [k |-> MG_K, seed |-> MG_SEED + 1]

\* The arguments of the multi-GPU call.
MGArgs == [k |-> MG_K, seed |-> MG_SEED]

\* batch_df = cugraph.betweenness_centrality(G, k=1024, seed=123)
CellMG ==
    /\ pc = "mg_bc"
    /\ calls' = Append(calls, Call("betweenness_centrality", MGArgs))
    /\ \/ /\ \E df \in betweenness_centrality(G, MGArgs.k, MGArgs.seed, lib_conforms) :
                batch_df' = df
          /\ Goes("mg_bc")
       \/ /\ Raise("mg_bc")
          /\ UNCHANGED batch_df
    /\ UNCHANGED <<envVars, fsVars, histVars, acqVars, e_list, G, sg_df,
                   sorted_sg_df, sorted_batch_df, verdict, displayed, ctxVars>>

\* ------------------------------------------------------------ verification
\* A cell that renews the index without sorting.
SortedResult_noSort(df) == reset_index(df)

\* df.sort_values("vertex").reset_index(drop=True)
SortedResult(df) == reset_index(sort_values_vertex(df))

CellSort ==
    /\ pc = "sort"
    /\ \/ /\ sorted_sg_df' = SortedResult(sg_df)
          /\ sorted_batch_df' = SortedResult(batch_df)
          /\ Goes("sort")
       \/ /\ Raise("sort")
          /\ UNCHANGED <<sorted_sg_df, sorted_batch_df>>
    /\ UNCHANGED <<envVars, fsVars, histVars, acqVars, e_list, G, sg_df, batch_df,
                   verdict, displayed, ctxVars, calls>>

\* The value of the comparison cell.
Verdict ==
    IF allclose(Column(sorted_sg_df, "betweenness_centrality"),
                Column(sorted_batch_df, "betweenness_centrality"))
    THEN "True" ELSE "False"

\* A cell that asserts the comparison: a mismatch raises.
CellVerify_asserted ==
    /\ pc = "verify"
    /\ \/ /\ Len(sorted_sg_df) = Len(sorted_batch_df)
          /\ verdict' = Verdict
          /\ IF Verdict = "True" THEN Goes("verify") ELSE Raise("verify")
       \/ /\ Raise("verify")
          /\ UNCHANGED verdict
    /\ UNCHANGED <<envVars, fsVars, histVars, acqVars, e_list, G, sg_df, batch_df,
                   sorted_sg_df, sorted_batch_df, displayed, ctxVars, calls>>

\* cupy.allclose(sorted_sg_df["betweenness_centrality"],
\*               sorted_batch_df["betweenness_centrality"]): the cell's value is
\* shown and nothing reads it.  The call itself raises on columns of
\* different lengths.
CellVerify ==
    /\ pc = "verify"
    /\ \/ /\ Len(sorted_sg_df) = Len(sorted_batch_df)
          /\ verdict' = Verdict
          /\ Goes("verify")
       \/ /\ Raise("verify")
          /\ UNCHANGED verdict
    /\ UNCHANGED <<envVars, fsVars, histVars, acqVars, e_list, G, sg_df, batch_df,
                   sorted_sg_df, sorted_batch_df, displayed, ctxVars, calls>>

\* print(sorted_sg_df)
CellPrintSG ==
    /\ pc = "print_sg"
    /\ displayed' = displayed \cup {"sorted_sg_df"}
    /\ Goes("print_sg")
    /\ UNCHANGED <<envVars, fsVars, histVars, acqVars, e_list, G, sg_df, batch_df,
                   sorted_sg_df, sorted_batch_df, verdict, ctxVars, calls>>

\* print(sorted_batch_df)
CellPrintBatch ==
    /\ pc = "print_batch"
    /\ displayed' = displayed \cup {"sorted_batch_df"}
    /\ Goes("print_batch")
    /\ UNCHANGED <<envVars, fsVars, histVars, acqVars, e_list, G, sg_df, batch_df,
                   sorted_sg_df, sorted_batch_df, verdict, ctxVars, calls>>

\* ---------------------------------------------------------------- teardown
\* Comms.destroy(); client.close(); cluster.close().  A statement that raises
\* leaves its handle, and those after it, as they were.
CellTeardown ==
    /\ pc = "teardown"
    /\ \/ /\ Raise("teardown")
          /\ UNCHANGED ctxVars
       \/ /\ comms' = "destroyed"
          /\ Raise("teardown")
          /\ UNCHANGED <<client, cluster>>
       \/ /\ comms' = "destroyed"
          /\ client' = "closed"
          /\ Raise("teardown")
          /\ UNCHANGED cluster
       \/ /\ comms' = "destroyed"
          /\ client' = "closed"
          /\ cluster' = "closed"
          /\ Goes("teardown")
    /\ UNCHANGED <<envVars, fsVars, histVars, acqVars, dataVars, calls>>

\* ------------------------------------------------------------ another run
\* The notebook is run again on a fresh kernel: the names of the last run are
\* gone, the files under ../data are as it left them.
Restart ==
    /\ pc \in {"done", "halted"}
    /\ run < MaxRuns
    /\ run' = run + 1
    /\ pc' = "mkdir"
    /\ failedAt' = ""
    /\ stdout' = {}
    /\ acqFailures' = {}
    /\ input_data_path' = ""
    /\ e_list' = <<>>
    /\ G' = DiGraph
    /\ sg_df' = <<>>
    /\ batch_df' = <<>>
    /\ sorted_sg_df' = <<>>
    /\ sorted_batch_df' = <<>>
    /\ verdict' = "none"
    /\ displayed' = {}
    /\ cluster' = "none"
    /\ client' = "none"
    /\ comms' = "none"
    /\ calls' = <<>>
    /\ UNCHANGED <<envVars, fsVars, netRequests, downloads, gunzipRuns>>

Next ==
    \/ CellMkdir
    \/ CellAcquire
    \/ CellReadCsv
    \/ CellBuild
    \/ CellSG
    \/ CellClusterUp
    \/ CellEnableBatch
    \/ CellMG
    \/ CellSort
    \/ CellVerify
    \/ CellPrintSG
    \/ CellPrintBatch
    \/ CellTeardown
    \/ Restart

Spec == Init /\ [][Next]_vars

SpecAnyLib == InitAnyLib /\ [][Next]_vars

\* ------------------------------------------------------------ properties
AllLive == [cluster |-> "live", client |-> "live", comms |-> "live"]
NoContext == [cluster |-> "none", client |-> "none", comms |-> "none"]
Released(c) == c.cluster = "closed" \/ c.client = "closed" \/ c.comms = "destroyed"

\* The cells that have run to their end in this run.
CellIndex(c) == CHOOSE j \in 1..Len(Cells) : Cells[j] = c
HasRun(c) ==
    CASE pc = "done" -> TRUE
      [] pc = "halted" -> CellIndex(c) < CellIndex(failedAt)
      [] OTHER -> CellIndex(c) < CellIndex(pc)

ScoreColumn(df) == Column(df, "betweenness_centrality")

AfterEnabling(i) == \E j \in 1..(i - 1) : calls[j].op = "enable_batch"

\* C2: batch enabling and the multi-GPU computation run with cluster, client
\* and communicator all live; no computation step runs with any of them torn
\* down; and teardown has begun only once all three computation steps of the
\* run have been made and the run is past them.
C2_ContextLifecycle ==
    /\ \A i \in 1..Len(calls) :
          /\ ~Released(calls[i].ctx)
          /\ (calls[i].op = "enable_batch" \/ AfterEnabling(i))
                => calls[i].ctx = AllLive
    /\ pc \in {"enable_batch", "mg_bc"} => CtxNow = AllLive
    /\ Released(CtxNow) =>
          /\ Len(calls) = 3
          /\ calls[3].op = "betweenness_centrality" /\ AfterEnabling(3)
          /\ pc \in {"done", "halted"}
          /\ pc = "halted" => failedAt = "teardown"

\* A run that made all its computation steps and then tore the context down.
C2_Witness ==
    /\ pc = "done"
    /\ CtxNow = [cluster |-> "closed", client |-> "closed", comms |-> "destroyed"]
    /\ Len(calls) = 3
    /\ calls[2].op = "enable_batch" /\ calls[2].ctx = AllLive
    /\ calls[3].ctx = AllLive

\* C3: an acquisition cell that runs while the decompressed file exists
\* makes no request, downloads and decompresses nothing, leaves the directory
\* and both files as they are, and the download cell sets input_data_path to
\* the decompressed file and goes on to the next cell.
C3_NoReacquire ==
    [][(pc \in {"mkdir", "acquire"} /\ fn_exists) =>
          /\ UNCHANGED fsVars
          /\ UNCHANGED <<netRequests, downloads, gunzipRuns>>
          /\ pc = "acquire" =>
                /\ input_data_path' = data_dir \o fn
                /\ pc' = "read_csv"
                /\ "already exists" \in stdout']_vars

\* A later run found the file an earlier run had downloaded and decompressed.
C3_Witness ==
    /\ run > 1
    /\ downloads = 1
    /\ gunzipRuns = 1
    /\ "already exists" \in stdout
    /\ input_data_path = data_dir \o fn
    /\ pc = "read_csv"

\* C4 as stated: once gunzip has been run, the compressed file is absent or
\* the decompressed file is present; no later step makes a request; the file
\* is downloaded at most once.
C4_Original ==
    [][/\ gunzipRuns' > 0 => (gz_state' = "absent" \/ fn_exists')
       /\ gunzipRuns > 0 => netRequests' = netRequests
       /\ downloads' <= 1]_vars

\* C4, amended: once gunzip has been run, exactly one of the two files is
\* present (the decompressed one if gunzip succeeded, else the compressed
\* one still); no later step makes a request; the file is downloaded at most
\* once.
C4_OneArtifactLeft ==
    [][/\ gunzipRuns' > 0 => (fn_exists' # (gz_state' # "absent"))
       /\ gunzipRuns > 0 => netRequests' = netRequests
       /\ downloads' <= 1]_vars

\* gunzip failed in two runs on the file the first of them downloaded: the
\* second run found the compressed file and made no request.
C4_Witness ==
    /\ run > 1
    /\ gunzipRuns > 1
    /\ downloads = 1
    /\ netRequests = 1
    /\ ~fn_exists
    /\ gz_state = "valid"

\* A frame with exactly one row for each vertex in V.
OneRowPerVertex(df, V) ==
    /\ Len(df) = Cardinality(V)
    /\ {df[i].vertex : i \in 1..Len(df)} = V

\* C5: each centrality result, as returned and as sorted and printed, has
\* exactly one row per vertex of the graph built from the edge list read, so
\* the two results have the same number of rows and the same vertices.
C5_OneRowPerVertex ==
    LET V == VerticesOf(e_list)
    IN  /\ HasRun("sg_bc") => OneRowPerVertex(sg_df, V)
        /\ HasRun("mg_bc") => OneRowPerVertex(batch_df, V)
        /\ HasRun("sort") =>
              /\ OneRowPerVertex(sorted_sg_df, V)
              /\ OneRowPerVertex(sorted_batch_df, V)
              /\ Len(sorted_sg_df) = Len(sorted_batch_df)
              /\ Column(sorted_sg_df, "vertex") = Column(sorted_batch_df, "vertex")

\* Both frames were printed for a graph of three edges on four vertices, one
\* of them never a source.
C5_Witness ==
    /\ displayed = {"sorted_sg_df", "sorted_batch_df"}
    /\ Len(e_list) = 3
    /\ Len(sorted_sg_df) = 4
    /\ Len(sorted_batch_df) = 4
    /\ \E v \in VerticesOf(e_list) : \A i \in 1..Len(e_list) : e_list[i].src # v

\* C6: once the second centrality call has been made, the calls of the run
\* are the single-GPU call, batch enabling and the multi-GPU call; the two
\* centrality calls have the same arguments (the same edges, k = 1024,
\* seed = 123); the first ran before batch enabling with no cluster context,
\* the second after it with the context live.
C6_SameArguments ==
    Len(calls) >= 3 =>
        /\ Len(calls) = 3
        /\ calls[1].op = "betweenness_centrality"
        /\ calls[2].op = "enable_batch"
        /\ calls[3].op = "betweenness_centrality"
        /\ calls[1].args = [k |-> 1024, seed |-> 123]
        /\ calls[3].args = calls[1].args
        /\ calls[3].edgelist = calls[1].edgelist
        /\ calls[1].ctx = NoContext
        /\ calls[3].ctx = AllLive

\* Both calls were made on a graph with edges and both returned.
C6_Witness ==
    /\ pc = "sort"
    /\ Len(calls) = 3
    /\ calls[1].edgelist # <<>>
    /\ sg_df # <<>>
    /\ batch_df # <<>>

\* The cells that follow the comparison cell.
AfterVerify == {"print_sg", "print_batch", "teardown", "done"}

\* C7: the value of the comparison cell stops nothing.  After a False, as
\* after a True, the run is at one of the cells that follow (each of which
\* can run) or has finished, and it has halted only if a teardown statement
\* raised.
C7_NotEnforced ==
    verdict # "none" =>
        /\ \/ pc \in AfterVerify
           \/ pc = "halted" /\ failedAt = "teardown"
        /\ pc = "print_sg" => ENABLED CellPrintSG
        /\ pc = "print_batch" => ENABLED CellPrintBatch
        /\ pc = "teardown" => ENABLED CellTeardown

\* The comparison gave False and the run went on to release all three.
C7_Witness ==
    /\ verdict = "False"
    /\ pc = "done"
    /\ displayed = {"sorted_sg_df", "sorted_batch_df"}
    /\ CtxNow = [cluster |-> "closed", client |-> "closed", comms |-> "destroyed"]

\* C8 as stated: when a command of dataset acquisition has failed in this
\* run, the run has halted in the acquisition cell where it failed and
\* input_data_path is not set (so the edge list is never read).
C8_AcquisitionFailureHalts ==
    acqFailures # {} =>
        /\ pc = "halted"
        /\ failedAt \in {"mkdir", "acquire"}
        /\ input_data_path = ""

C10_NoReleaseOnFailure ==
    /\ (pc = "halted" /\ failedAt \in {"enable_batch", "mg_bc", "sort", "verify"})
          => CtxNow = AllLive
    /\ (pc = "halted" /\ failedAt = "cluster_up")
          => (~Released(CtxNow) /\ comms = "none")
    /\ (cluster = "closed" /\ client = "closed" /\ comms = "destroyed")
          => (pc = "done" /\ failedAt = "")

\* The multi-GPU computation raised and left the whole context live.
C10_Witness ==
    /\ pc = "halted"
    /\ failedAt = "mg_bc"
    /\ CtxNow = AllLive
    /\ Len(calls) = 3

====
